---- MODULE Spec2Model ----
(***************************************************************************)
(* Model of scaled-execution-containers/cdk/lambda/format-notification.py: *)
(* an AWS Lambda function that formats an AWS Batch job state change event *)
(* into an e-mail subject and body and publishes it to an SNS topic.       *)
(*                                                                         *)
(* Python values are modelled as follows.                                  *)
(*   - a dict is a TLA+ function whose DOMAIN is the set of keys present;  *)
(*     the empty dict is << >>                                             *)
(*   - a str is a TLA+ string; an f-string is a concatenation with \o and  *)
(*     a line break is the character "\n"                                  *)
(*   - the two emoji of the templates are written as their code points     *)
(*     ("U+2705" for the check mark, "U+274C" for the cross mark)          *)
(*   - a value that is either an int or a str (exit_code) is tagged with   *)
(*     its type, and Format turns it into text as an f-string does         *)
(*   - an uncaught exception is a result of kind "raise"                   *)
(***************************************************************************)
EXTENDS Integers, Sequences, FiniteSets, TLC

VARIABLES
    environ,    \* os.environ, restricted to the key TOPIC_ARN (Unset: no key)
    module,     \* "cold" before the module body ran, then "ready" or "failed"
    sns,        \* module global sns: the client handle, or NoClient
    TOPIC_ARN,  \* module global TOPIC_ARN, or Unset while the name is unbound
    inv,        \* the latest invocation of handler: event, outbound calls, result
    earlier     \* history variable: some invocation that preceded inv

vars == <<environ, module, sns, TOPIC_ARN, inv, earlier>>

----------------------------------------------------------------------------
(* Bounds and input domains *)

MaxExitCode == 1

Unset == "<unset>"
NoClient == "<no client>"
SnsClient == "boto3.client('sns')"
NoKey == "<no missing key>"

Topics == {"arn:aws:sns:us-east-1:111122223333:atx-a",
           "arn:aws:sns:us-east-1:111122223333:atx-b"}
Statuses == {"SUCCEEDED", "FAILED", "RUNNING"}
JobNames == {"job-42", "atx-build"}
JobIds == {"abc-123", "7f3e-9a"}
Regions == {"us-east-1", "eu-west-1"}
Times == {"2024-01-01T00:00:00Z"}
Reasons == {"Essential container in task exited"}
ExitCodes == 0..MaxExitCode
MessageIds == {"mid-1", "mid-2"}
PublishErrors == {"AuthorizationError", "Throttled", "ServiceUnavailable"}

Restrict(f, K) == [k \in K |-> f[k]]

Containers == {<< >>} \cup {[exitCode |-> n] : n \in ExitCodes}

FullDetails ==
    [status : Statuses, jobName : JobNames, jobId : JobIds,
     statusReason : Reasons, container : Containers]

\* every detail object: each key present or absent
Details == {Restrict(d, K) : d \in FullDetails, K \in SUBSET {"status", "jobName", "jobId", "statusReason", "container"}}

FullEvents == [detail : Details, region : Regions, time : Times]

\* every event: each top-level key present or absent
Events == {Restrict(e, K) : e \in FullEvents, K \in SUBSET {"detail", "region", "time"}}

\* what the SNS service answers to one publish call
PublishResponses ==
    {[ok |-> TRUE, MessageId |-> m] : m \in MessageIds}
        \cup {[ok |-> FALSE, error |-> x] : x \in PublishErrors}

----------------------------------------------------------------------------
(* The handler *)

Return(v) == [kind |-> "return", value |-> v]
Raise(exc, arg) == [kind |-> "raise", exc |-> exc, arg |-> arg]

\* lines 11-16: the subscripts in source order; the first absent key raises
LookupError(event) ==
    IF "detail" \notin DOMAIN event THEN "detail"
    ELSE IF "status" \notin DOMAIN event.detail THEN "status"
    ELSE IF "jobName" \notin DOMAIN event.detail THEN "jobName"
    ELSE IF "jobId" \notin DOMAIN event.detail THEN "jobId"
    ELSE IF "region" \notin DOMAIN event THEN "region"
    ELSE IF "time" \notin DOMAIN event THEN "time"
    ELSE NoKey

\* dict.get(key, default)
Get(d, key, default) == IF key \in DOMAIN d THEN d[key] ELSE default

IntVal(n) == [type |-> "int", val |-> n]
StrVal(s) == [type |-> "str", val |-> s]

\* f"{x}": str(x)
Format(x) == IF x.type = "int" THEN ToString(x.val) ELSE x.val

\* variant of exit_code: the default is given for the container only,
\* detail.get('container', {'exitCode': 'N/A'}).get('exitCode')
exit_code_container_default(detail) ==
    IF "container" \notin DOMAIN detail
    THEN StrVal("N/A")
    ELSE IF "exitCode" \in DOMAIN detail.container
         THEN IntVal(detail.container.exitCode)
         ELSE StrVal("None")

\* line 17: detail.get('container', {}).get('exitCode', 'N/A')
exit_code(detail) ==
    LET container == Get(detail, "container", << >>)
    IN  IF "exitCode" \in DOMAIN container
        THEN IntVal(container.exitCode)
        ELSE StrVal("N/A")

\* line 37: detail.get('statusReason', 'Unknown')
status_reason(detail) == Get(detail, "statusReason", "Unknown")

\* variant of is_succeeded: the status is compared with 'SUCCESS'
is_succeeded_wrong_literal(status) == status = "SUCCESS"

\* variant of is_succeeded: everything but 'FAILED' takes the success branch
is_succeeded_unless_failed(status) == status # "FAILED"

\* line 19: the branch condition
is_succeeded(status) == status = "SUCCEEDED"

CHECK_MARK == "U+2705"
CROSS_MARK == "U+274C"

\* variant of logs_url: the region of the link is a literal
logs_url_fixed_region(region) ==
    "https://console.aws.amazon.com/cloudwatch/home?region=" \o "us-east-1"
        \o "#logsV2:log-groups/log-group/$252Faws$252Fbatch$252Fatx-transform"

\* lines 31 and 50
logs_url(region) ==
    "https://console.aws.amazon.com/cloudwatch/home?region=" \o region
        \o "#logsV2:log-groups/log-group/$252Faws$252Fbatch$252Fatx-transform"

\* lines 34 and 53
describe_jobs(job_id, region) ==
    "aws batch describe-jobs --jobs " \o job_id \o " --region " \o region

TROUBLESHOOTING_URL ==
    "https://github.com/aws-samples/aws-transform-custom-samples/blob/main/scaled-execution-containers/docs/TROUBLESHOOTING.md"

\* line 20
success_subject(job_name) ==
    CHECK_MARK \o " AWS Transform Job Completed: " \o job_name

\* lines 21-35
success_message(job_name, job_id, status, ec, region, time) ==
    CHECK_MARK \o " AWS Transform Job Completed Successfully\n"
    \o "\n"
    \o "Job Name: " \o job_name \o "\n"
    \o "Job ID: " \o job_id \o "\n"
    \o "Status: " \o status \o "\n"
    \o "Exit Code: " \o Format(ec) \o "\n"
    \o "Region: " \o region \o "\n"
    \o "Completed At: " \o time \o "\n"
    \o "\n"
    \o "View logs:\n"
    \o logs_url(region) \o "\n"
    \o "\n"
    \o "Check job status:\n"
    \o describe_jobs(job_id, region) \o "\n"

\* line 38
failure_subject(job_name) ==
    CROSS_MARK \o " AWS Transform Job Failed: " \o job_name

\* lines 39-57
failure_message(job_name, job_id, status, ec, reason, region, time) ==
    CROSS_MARK \o " AWS Transform Job Failed\n"
    \o "\n"
    \o "Job Name: " \o job_name \o "\n"
    \o "Job ID: " \o job_id \o "\n"
    \o "Status: " \o status \o "\n"
    \o "Exit Code: " \o Format(ec) \o "\n"
    \o "Reason: " \o reason \o "\n"
    \o "Region: " \o region \o "\n"
    \o "Failed At: " \o time \o "\n"
    \o "\n"
    \o "View logs:\n"
    \o logs_url(region) \o "\n"
    \o "\n"
    \o "Check job status:\n"
    \o describe_jobs(job_id, region) \o "\n"
    \o "\n"
    \o "Troubleshooting:\n"
    \o TROUBLESHOOTING_URL \o "\n"

\* lines 19-57: the (subject, message) pair of a well-formed event
notification(event) ==
    LET detail == event.detail
        status == detail.status
        job_name == detail.jobName
        job_id == detail.jobId
        region == event.region
        time == event.time
        ec == exit_code(detail)
    IN  IF is_succeeded(status)
        THEN [subject |-> success_subject(job_name),
              message |-> success_message(job_name, job_id, status, ec, region, time)]
        ELSE [subject |-> failure_subject(job_name),
              message |-> failure_message(job_name, job_id, status, ec,
                                          status_reason(detail), region, time)]

\* lines 60-64: the keyword arguments of sns.publish
publish_kwargs(topic, n) ==
    [TopicArn |-> topic, Subject |-> n.subject, Message |-> n.message]

\* variant of publish_calls: a failed publish is tried a second time
publish_calls_retry(kwargs, response) ==
    LET call == [api |-> "sns.publish", kwargs |-> kwargs, response |-> response]
    IN  IF response.ok THEN <<call>> ELSE <<call, call>>

\* variant of publish_calls: the message goes out twice
publish_calls_twice(kwargs, response) ==
    LET call == [api |-> "sns.publish", kwargs |-> kwargs, response |-> response]
    IN  <<call, call>>

\* lines 60-64: the outbound calls of one invocation, given the service's answer
publish_calls(kwargs, response) ==
    <<[api |-> "sns.publish", kwargs |-> kwargs, response |-> response]>>

\* variant of return_value: the status code is taken from publish's answer
return_value_from_response(response) ==
    [statusCode |-> IF response.MessageId = "mid-1" THEN 200 ELSE 202]

\* line 66: the value returned once publish has returned
return_value(response) == [statusCode |-> 200]

\* lines 60-66: an exception of publish propagates, otherwise the return
invocation_result(response) ==
    IF response.ok
    THEN Return(return_value(response))
    ELSE Raise("ClientError", response.error)

\* lines 19-66: what follows the lookups, for an event that passed them
format_and_publish(event, topic, response) ==
    LET kwargs == publish_kwargs(topic, notification(event))
    IN  [event |-> event,
         calls |-> publish_calls(kwargs, response),
         result |-> invocation_result(response)]

\* variant of handler: the lookup error is caught and reported as a success
handler_catches(event, topic, response) ==
    IF LookupError(event) # NoKey
    THEN [event |-> event, calls |-> << >>, result |-> Return([statusCode |-> 200])]
    ELSE format_and_publish(event, topic, response)

\* variant of handler: the topic is read from os.environ in every invocation
handler_rereads_environ(event, topic, response) ==
    IF LookupError(event) # NoKey
    THEN [event |-> event, calls |-> << >>,
          result |-> Raise("KeyError", LookupError(event))]
    ELSE format_and_publish(event, environ, response)

\* lines 8-66: one invocation; topic is the module global TOPIC_ARN and
\* response is what the service answers if publish is called
handler(event, topic, response) ==
    LET missing == LookupError(event)
    IN  IF missing # NoKey
        THEN [event |-> event, calls |-> << >>, result |-> Raise("KeyError", missing)]
        ELSE format_and_publish(event, topic, response)

----------------------------------------------------------------------------
(* The state machine *)

\* no invocation in progress or finished: the runtime is idle
NoInv == [event |-> << >>, calls |-> << >>, result |-> [kind |-> "none"]]

Init ==
    /\ environ \in Topics \cup {Unset}
    /\ module = "cold"
    /\ sns = NoClient
    /\ TOPIC_ARN = Unset
    /\ inv = NoInv
    /\ earlier = NoInv

\* variant of read_topic: os.environ.get('TOPIC_ARN')
read_topic_get(env) == Return(env)

\* line 6: os.environ['TOPIC_ARN']
read_topic(env) ==
    IF env = Unset THEN Raise("KeyError", "TOPIC_ARN") ELSE Return(env)

\* lines 5-6: the module body, run once by the runtime before any invocation;
\* boto3.client may itself raise (clientOk = FALSE)
Load ==
    /\ module = "cold"
    /\ \E clientOk \in BOOLEAN :
          LET topic == read_topic(environ)
          IN  IF ~clientOk
              THEN /\ module' = "failed"
                   /\ UNCHANGED <<sns, TOPIC_ARN>>
              ELSE IF topic.kind = "raise"
              THEN /\ module' = "failed"
                   /\ sns' = SnsClient
                   /\ UNCHANGED TOPIC_ARN
              ELSE /\ module' = "ready"
                   /\ sns' = SnsClient
                   /\ TOPIC_ARN' = topic.value
    /\ UNCHANGED <<environ, inv, earlier>>

\* the process environment changes after the module was loaded
SetEnv ==
    /\ module = "ready"
    /\ \E v \in Topics \cup {Unset} :
          /\ v # environ
          /\ environ' = v
    /\ UNCHANGED <<module, sns, TOPIC_ARN, inv, earlier>>

\* lines 8-66: the idle runtime calls handler(event, context), which runs to
\* its return or to its uncaught exception
InvokeWith(E) ==
    /\ module = "ready"
    /\ inv = NoInv
    /\ \E event \in E, response \in PublishResponses :
          inv' = handler(event, TOPIC_ARN, response)
    /\ UNCHANGED <<environ, module, sns, TOPIC_ARN, earlier>>

Invoke == InvokeWith(Events)

\* the runtime reports the result of the invocation; the handler's locals are
\* gone and the runtime is idle again
Complete ==
    /\ inv # NoInv
    /\ inv' = NoInv
    /\ UNCHANGED <<environ, module, sns, TOPIC_ARN, earlier>>

Next == Load \/ SetEnv \/ Invoke \/ Complete

Spec == Init /\ [][Next]_vars

----------------------------------------------------------------------------
(* Sequences of invocations: the same machine, recording in "earlier" any   *)
(* one of the invocations that came before the current one                  *)

TrackedEvents ==
    {e \in Events :
        /\ "detail" \in DOMAIN e =>
              /\ "jobName" \in DOMAIN e.detail => e.detail.jobName = "job-42"
              /\ "jobId" \in DOMAIN e.detail => e.detail.jobId = "abc-123"
              /\ "container" \in DOMAIN e.detail => e.detail.container = [exitCode |-> 0]
              /\ "statusReason" \notin DOMAIN e.detail
              /\ "status" \in DOMAIN e.detail => e.detail.status # "RUNNING"
        /\ "region" \in DOMAIN e => e.region = "us-east-1"}

InvokeTracked == InvokeWith(TrackedEvents)

CompleteRecorded ==
    /\ inv # NoInv
    /\ inv' = NoInv
    /\ earlier' \in {earlier, inv}
    /\ UNCHANGED <<environ, module, sns, TOPIC_ARN>>

NextHistory == Load \/ SetEnv \/ InvokeTracked \/ CompleteRecorded

SpecHistory == Init /\ [][NextHistory]_vars

----------------------------------------------------------------------------
(* Properties *)

\* sub occurs in s
InStr(s, sub) ==
    \E i \in 1..(Len(s) - Len(sub) + 1) : SubSeq(s, i, i + Len(sub) - 1) = sub

\* the event carries every required field
HasRequired(e) ==
    /\ {"detail", "region", "time"} \subseteq DOMAIN e
    /\ {"status", "jobName", "jobId"} \subseteq DOMAIN e.detail

\* an invocation has run and the runtime has not yet taken its result
Finished == inv # NoInv

\* the calls of invocation i that the service accepted
Delivered(i) == SelectSeq(i.calls, LAMBDA c : c.response.ok)

\* the invocation made a publish call
Published == Finished /\ Len(inv.calls) >= 1

Subject == inv.calls[1].kwargs.Subject
Message == inv.calls[1].kwargs.Message

\* the text of the exit-code field that the event calls for
ExpectedExitCode(e) ==
    IF "container" \in DOMAIN e.detail /\ "exitCode" \in DOMAIN e.detail.container
    THEN ToString(e.detail.container.exitCode)
    ELSE "N/A"

LogsLink(region) ==
    "View logs:\nhttps://console.aws.amazon.com/cloudwatch/home?region=" \o region
        \o "#logsV2:log-groups/log-group/$252Faws$252Fbatch$252Fatx-transform\n"

\* C1: an invocation on an event with every required field, whose publish call
\* does not fail, makes exactly one outbound call, and that call is sns.publish
\* addressed to the configured topic, whatever the status is.
C1_ExactlyOnePublish ==
    (/\ Finished
     /\ HasRequired(inv.event)
     /\ \A i \in DOMAIN inv.calls : inv.calls[i].response.ok)
        => /\ Len(inv.calls) = 1
           /\ inv.calls[1].api = "sns.publish"
           /\ inv.calls[1].kwargs.TopicArn = TOPIC_ARN
           /\ TOPIC_ARN \in Topics

C1_Witness ==
    /\ Finished
    /\ HasRequired(inv.event)
    /\ inv.event.detail.status = "RUNNING"
    /\ Len(inv.calls) = 1
    /\ inv.calls[1].response.ok
    /\ inv.calls[1].kwargs.TopicArn = TOPIC_ARN

\* C2: an invocation on an event that lacks a required field ends in an uncaught
\* KeyError, makes no publish call and returns nothing, whatever else the event
\* holds.
C2_MissingFieldFailsBeforePublish ==
    (Finished /\ ~HasRequired(inv.event))
        => /\ inv.result.kind = "raise"
           /\ inv.result.exc = "KeyError"
           /\ inv.result.arg \in {"detail", "status", "jobName", "jobId", "region", "time"}
           /\ inv.calls = << >>

C2_Witness ==
    /\ Finished
    /\ {"detail", "region", "time"} \subseteq DOMAIN inv.event
    /\ DOMAIN inv.event.detail = {"status", "jobId", "statusReason", "container"}
    /\ inv.result = Raise("KeyError", "jobName")
    /\ inv.calls = << >>

\* C3: for a SUCCEEDED event the subject is the success template with the job
\* name, and the body holds the job name, the job id, the status, the resolved
\* exit code, the region and the time, and neither a troubleshooting link nor a
\* Reason field.
C3_SuccessNotification ==
    (Finished /\ HasRequired(inv.event) /\ inv.event.detail.status = "SUCCEEDED")
        => /\ Published
           /\ Subject = CHECK_MARK \o " AWS Transform Job Completed: " \o inv.event.detail.jobName
           /\ InStr(Message, CHECK_MARK \o " AWS Transform Job Completed Successfully\n")
           /\ InStr(Message, "\nJob Name: " \o inv.event.detail.jobName \o "\n")
           /\ InStr(Message, "\nJob ID: " \o inv.event.detail.jobId \o "\n")
           /\ InStr(Message, "\nStatus: SUCCEEDED\n")
           /\ InStr(Message, "\nExit Code: " \o ExpectedExitCode(inv.event) \o "\n")
           /\ InStr(Message, "\nRegion: " \o inv.event.region \o "\n")
           /\ InStr(Message, "\nCompleted At: " \o inv.event.time \o "\n")
           /\ ~InStr(Message, "Troubleshooting")
           /\ ~InStr(Message, "TROUBLESHOOTING.md")
           /\ ~InStr(Message, "Reason:")
           /\ ~InStr(Message, CROSS_MARK)
           /\ ~InStr(Subject, CROSS_MARK)

C3_Witness ==
    /\ Published
    /\ HasRequired(inv.event)
    /\ inv.event.detail.status = "SUCCEEDED"
    /\ "statusReason" \in DOMAIN inv.event.detail
    /\ inv.event.detail.jobName = "atx-build"
    /\ InStr(Message, "\nExit Code: 1\n")
    /\ ~InStr(Message, "Reason:")

\* C4: for an event whose status is not SUCCEEDED (FAILED, RUNNING, ...) exactly
\* one notification is published, its subject is the failure template with the
\* job name, and its body holds the actual status, the statusReason of the event
\* or "Unknown" when there is none, and the troubleshooting link.
C4_FailureNotification ==
    (Finished /\ HasRequired(inv.event) /\ inv.event.detail.status # "SUCCEEDED")
        => /\ Len(inv.calls) = 1
           /\ Subject = CROSS_MARK \o " AWS Transform Job Failed: " \o inv.event.detail.jobName
           /\ InStr(Message, CROSS_MARK \o " AWS Transform Job Failed\n")
           /\ InStr(Message, "\nStatus: " \o inv.event.detail.status \o "\n")
           /\ InStr(Message, "\nReason: "
                  \o (IF "statusReason" \in DOMAIN inv.event.detail
                      THEN inv.event.detail.statusReason ELSE "Unknown") \o "\n")
           /\ InStr(Message, "\nTroubleshooting:\n" \o TROUBLESHOOTING_URL \o "\n")
           /\ ~InStr(Message, CHECK_MARK)
           /\ ~InStr(Subject, CHECK_MARK)

C4_Witness ==
    /\ Published
    /\ HasRequired(inv.event)
    /\ inv.event.detail.status = "RUNNING"
    /\ "statusReason" \notin DOMAIN inv.event.detail
    /\ InStr(Message, "\nStatus: RUNNING\n")
    /\ InStr(Message, "\nReason: Unknown\n")

\* C5: in both branches the exit-code field of the body is "N/A" when the event
\* has no container or a container without exitCode, and the value of exitCode
\* otherwise; an event with every required field never fails on a lookup,
\* whichever optional fields it lacks.
C5_ExitCodeField ==
    (Finished /\ HasRequired(inv.event))
        => /\ Published
           /\ ~(inv.result.kind = "raise" /\ inv.result.exc = "KeyError")
           /\ \A x \in {"N/A", "None"} \cup {ToString(n) : n \in ExitCodes} :
                 InStr(Message, "\nExit Code: " \o x \o "\n")
                    <=> x = ExpectedExitCode(inv.event)

C5_Witness ==
    /\ Published
    /\ HasRequired(inv.event)
    /\ inv.event.detail.status = "FAILED"
    /\ DOMAIN inv.event.detail = {"status", "jobName", "jobId", "container"}
    /\ inv.event.detail.container = << >>
    /\ InStr(Message, "\nExit Code: N/A\n")
    /\ InStr(Message, "\nReason: Unknown\n")

\* C6: when the publish call returns, handler returns exactly {statusCode: 200},
\* for every status and every acknowledgement.
C6_Returns200 ==
    (Published /\ \A i \in DOMAIN inv.calls : inv.calls[i].response.ok)
        => inv.result = Return([statusCode |-> 200])

C6_Witness ==
    /\ Published
    /\ inv.calls[1].response.ok
    /\ inv.calls[1].response.MessageId = "mid-2"
    /\ inv.event.detail.status = "FAILED"
    /\ inv.result = Return([statusCode |-> 200])

\* C7: in every published body the log-console link is the fixed template with the
\* region of the event, and no other region, and the same region is shown in the
\* Region field and in the describe-jobs command.
C7_LogsLinkRegion ==
    Published
        => \A r \in Regions :
              /\ InStr(Message, LogsLink(r)) <=> r = inv.event.region
              /\ InStr(Message, "\nRegion: " \o r \o "\n") <=> r = inv.event.region
              /\ InStr(Message, " --region " \o r \o "\n") <=> r = inv.event.region

C7_Witness ==
    /\ Published
    /\ inv.event.region = "eu-west-1"
    /\ inv.event.detail.status = "FAILED"
    /\ InStr(Message, LogsLink("eu-west-1"))

\* C8: a module loaded without TOPIC_ARN in the environment fails to load; a
\* module that failed to load never runs the handler; and every publish call is
\* addressed to the value read when the module was loaded, which later changes
\* of the environment do not alter.
C8_TopicReadAtLoad ==
    /\ [][(module = "cold" /\ environ = Unset) => module' # "ready"]_vars
    /\ [][module = "failed" => (module' = "failed" /\ inv' = inv /\ inv = NoInv)]_vars
    /\ [][(module = "cold" /\ module' = "ready") => TOPIC_ARN' = environ]_vars
    /\ [][module = "ready" => (module' = "ready" /\ TOPIC_ARN' = TOPIC_ARN)]_vars
    /\ [](\A i \in DOMAIN inv.calls : inv.calls[i].kwargs.TopicArn = TOPIC_ARN)

C8_Witness ==
    /\ module = "failed"
    /\ environ = Unset
    /\ sns = SnsClient
    /\ TOPIC_ARN = Unset
    /\ inv = NoInv

\* C9: when the publish call fails, the invocation ends in the uncaught error
\* and returns nothing, publish was called exactly once, and nothing was
\* delivered.
C9_PublishFailurePropagates ==
    (Finished /\ \E i \in DOMAIN inv.calls : ~inv.calls[i].response.ok)
        => /\ inv.result.kind = "raise"
           /\ inv.result.exc = "ClientError"
           /\ Len(inv.calls) = 1
           /\ Delivered(inv) = << >>

C9_Witness ==
    /\ Finished
    /\ Len(inv.calls) = 1
    /\ inv.calls[1].response = [ok |-> FALSE, error |-> "Throttled"]
    /\ inv.result = Raise("ClientError", "Throttled")

\* what an invocation did: the notifications delivered, and its result
Outcome(i) ==
    [published |-> [n \in DOMAIN Delivered(i) |-> Delivered(i)[n].kwargs],
     result |-> i.result]

\* the error with which publish failed in invocation i, if it did
PublishFailure(i) ==
    IF i.calls # << >> /\ ~i.calls[1].response.ok THEN i.calls[1].response.error ELSE "none"

\* C10, as claimed: two invocations of the same event have the same outcome.
C10_SameEventSameOutcome ==
    (Finished /\ earlier # NoInv /\ inv.event = earlier.event)
        => Outcome(inv) = Outcome(earlier)

\* C10, amended: two invocations of the same event in which publish fails the same
\* way, or in neither, have the same outcome, whatever ran in between.
C10_SameEventAndPublishSameOutcome ==
    (/\ Finished
     /\ earlier # NoInv
     /\ inv.event = earlier.event
     /\ PublishFailure(inv) = PublishFailure(earlier))
        => Outcome(inv) = Outcome(earlier)

C10_Witness ==
    /\ Finished
    /\ earlier # NoInv
    /\ inv.event = earlier.event
    /\ Len(inv.calls) = 1
    /\ inv.calls[1].response = [ok |-> TRUE, MessageId |-> "mid-1"]
    /\ earlier.calls[1].response = [ok |-> TRUE, MessageId |-> "mid-2"]
    /\ environ # TOPIC_ARN
    /\ Outcome(inv) = Outcome(earlier)

====
